---- MODULE Spec2Model ----
\* Explicit-free-list allocator of Malloc_implementation_lab.c: boundary
\* tags, first-fit search, splitting and four-case coalescing, over a heap
\* that grows through mem_sbrk.
\*
\* Memory is a map from the byte address of each 8-byte word that has been
\* written to the word's value.  A size_t or pointer value v is kept as its
\* two's-complement representative: v itself when v is below 2^31, and
\* v minus 2^64 when v is within 2^31 of 2^64 (so -1 is SIZE_MAX, and also
\* the pointer value -1).  Addition, subtraction and multiplication by a
\* power of two modulo 2^64 are then the integer operations on
\* representatives; unsigned comparison and division are ULE, ULT and
\* RoundDown below.
EXTENDS Integers, Sequences, FiniteSets, TLC

(* ---------------- program constants ---------------- *)
WSIZE == 8
DSIZE == 16
CHUNKSIZE == 4096
OVERHEAD == 16
MINIMUMSIZE == 32
NULL == 0

(* ---------------- memlib (not in src/) ---------------- *)
\* mem_heap_lo(): address of the first heap byte, 16-byte aligned, not NULL.
HEAP_LO == 65536
\* Value mem_sbrk returns when it cannot grow the heap: the pointer -1.
SBRK_FAIL == -1

(* ---------------- bounds of the model ---------------- *)
\* Largest capacity of the memory source, in bytes.
MaxHeap == 9152
\* Number of steps (mm_malloc, mm_free, caller stores) after mm_init.
MaxOps == 4
\* Number of steps after mm_init in the runs of small requests only.
MaxOpsDeep == 6

\* Capacities of the memory source tried by Init: too small for the
\* sentinels, too small for the first chunk, exactly the initial heap, and
\* room for one more extension (of 4096 bytes, or of the 5024 bytes a
\* request of 5000 needs).
Capacities == {16, 2048, 4128, MaxHeap}

\* Request sizes: 0, small, mid, above CHUNKSIZE, sizes within 31 of
\* SIZE_MAX (-1 is 2^64-1, -16 is 2^64-16), for which size + 31 wraps, and
\* a size just below them (-40 is 2^64-40), for which it does not.
Sizes == {0, 1, 50, 100, 200, 4000, 5000, -1, -16, -40}
\* Request sizes of the longer runs.
SizesDeep == {50, 100, 200}

VARIABLES
    mem,         \* written heap words: byte address -> value
    brk,         \* mem_brk - mem_heap_lo(): current heap size in bytes
    heap_start,  \* the global heap_start (free-list head after mm_init)
    err,         \* "ok", or how the last call left defined behaviour
    max_heap,    \* capacity of the memory source
    pc,          \* "start", "ready" (mm_init returned 0), "failed" (-1)
    live,        \* allocations not yet freed: pointer and requested size
    pre,         \* allocator state before the call just made
    hist,        \* the calls made so far, mm_init first
    nops,        \* calls made after mm_init
    builds       \* the builds that make the calls so far end as they did

vars == <<mem, brk, heap_start, err, max_heap, pc, live, pre, hist, nops,
          builds>>

(* ---------------- unsigned arithmetic on representatives ---------------- *)
\* x <= y and x < y as size_t values.
ULE(x, y) == IF (x >= 0) = (y >= 0) THEN x <= y ELSE x >= 0
ULT(x, y) == x # y /\ ULE(x, y)
\* d * (x / d) modulo 2^64, d a power of two dividing 2^64.
RoundDown(x, d) == d * (x \div d)

(* ---------------- macros ---------------- *)
\* size | alloc, for alloc in {0, 1}
PACK(size, alloc) == IF size % 2 = 1 THEN size ELSE size + alloc
\* word & ~0xf and word & 0x1
SIZE_OF(word) == word - (word % 16)
ALLOC_OF(word) == word % 2
PADD(p, val) == p + val
PSUB(p, val) == p - val
HDRP(bp) == PSUB(bp, WSIZE)

(* ---------------- allocator state and memory access ---------------- *)
\* What a build makes of a load whose word a store through another type may
\* have hit since the routine last had its value (undefined behaviour when
\* the store did hit it, so the program is any of the builds):
\*   - a load through size_t * (NEXT_BLKP in the split branch of place,
\*     NEXT_BLKP and PREV_BLKP after the removals of coalesce's last case)
\*     after the link stores of remove_node through char **;
\*   - the loads of the links of bp through char ** in the remove_node of
\*     place, after the tag stores through size_t * (the footer of a
\*     16-byte block is its previous-link).
\* "memory" loads every word where the source does; "register" keeps the
\* sizes it has and calls remove_node, which loads the links; "inline" keeps
\* the sizes and has loaded the links before the tag stores.
Builds == {"memory", "register", "inline"}

\* The state a routine works on: memory, heap size, heap_start, the
\* capacity of the memory source, and the build that runs the routine.
State(m, b, h, e, c) ==
    [mem |-> m, brk |-> b, hs |-> h, err |-> e, cap |-> c, cc |-> "memory"]
\* The state s in the hands of the build b, and the result r of a call
\* without the build that ran it.
Built(s, b) == [s EXCEPT !.cc = b]
Left(r) == [r EXCEPT !.st.cc = "memory"]

InHeap(s, a) == a % WSIZE = 0 /\ a >= HEAP_LO /\ a + WSIZE <= HEAP_LO + s.brk
Readable(s, a) == InHeap(s, a) /\ a \in DOMAIN s.mem

\* A load or store outside the heap, or a load of a word never written,
\* is undefined behaviour: the call does not complete in a defined way.
Fault(s, kind) == IF s.err = "ok" THEN [s EXCEPT !.err = kind] ELSE s

\* Reads of the words at the addresses A happen here.
Touch(s, A) ==
    IF s.err # "ok" THEN s
    ELSE IF \E a \in A : ~InHeap(s, a) THEN Fault(s, "wild")
    ELSE IF \E a \in A : a \notin DOMAIN s.mem THEN Fault(s, "uninit")
    ELSE s

\* GET(p); 0 stands in once the call has already faulted.
GET(s, p) == IF s.err = "ok" /\ Readable(s, p) THEN s.mem[p] ELSE 0

\* PUT(p, val)
PUT(s, p, val) ==
    IF s.err # "ok" THEN s
    ELSE IF ~InHeap(s, p) THEN Fault(s, "wild")
    ELSE [s EXCEPT !.mem = [a \in (DOMAIN s.mem) \cup {p} |->
                               IF a = p THEN val ELSE s.mem[a]]]

GET_SIZE(s, p) == SIZE_OF(GET(s, p))
GET_ALLOC(s, p) == ALLOC_OF(GET(s, p))
FTRP(s, bp) == PADD(bp, GET_SIZE(s, HDRP(bp)) - DSIZE)
NEXT_BLKP(s, bp) == PADD(bp, GET_SIZE(s, HDRP(bp)))
PREV_BLKP(s, bp) == PSUB(bp, GET_SIZE(s, PSUB(bp, DSIZE)))
\* Addresses of the link words of a free block.
PREV_FREE(bp) == bp
NEXT_FREE(bp) == bp + WSIZE

(* ---------------- memlib ---------------- *)
\* mem_sbrk(incr): grows the heap by incr bytes and returns the old break,
\* or fails without effect when the source cannot supply incr bytes.
mem_sbrk(s, incr) ==
    IF incr < 0 \/ s.brk + incr > s.cap
    THEN [st |-> s, ret |-> SBRK_FAIL]
    ELSE [st |-> [s EXCEPT !.brk = s.brk + incr], ret |-> HEAP_LO + s.brk]

(* ---------------- free list ---------------- *)
\* heap_start = p
set_heap_start(s, p) == IF s.err # "ok" THEN s ELSE [s EXCEPT !.hs = p]

\* insert_head without the store into the old head's previous-link.
set_head_prev_skipped(s, bp) == s

\* PREV_FREE(heap_start) = bp
set_head_prev(s, bp) == PUT(s, PREV_FREE(s.hs), bp)

insert_head(s, bp) ==
    LET s1 == PUT(s, NEXT_FREE(bp), s.hs)
        s2 == set_head_prev(s1, bp)
        s3 == PUT(s2, PREV_FREE(bp), NULL)
    IN  set_heap_start(s3, bp)

\* NEXT_FREE(PREV_FREE(bp)) = NEXT_FREE(bp)
set_pred_next(s, bp) ==
    LET t == Touch(s, {NEXT_FREE(bp)})
    IN  PUT(t, NEXT_FREE(GET(t, PREV_FREE(bp))), GET(t, NEXT_FREE(bp)))

\* heap_start = NEXT_FREE(bp)
set_head_next(s, bp) ==
    LET t == Touch(s, {NEXT_FREE(bp)})
    IN  set_heap_start(t, GET(t, NEXT_FREE(bp)))

\* PREV_FREE(NEXT_FREE(bp)) = PREV_FREE(bp)
set_succ_prev(s, bp) ==
    LET t == Touch(s, {NEXT_FREE(bp), PREV_FREE(bp)})
    IN  PUT(t, PREV_FREE(GET(t, NEXT_FREE(bp))), GET(t, PREV_FREE(bp)))

\* The if and else of remove_node.
unlink_pred(s, bp) ==
    LET s0 == Touch(s, {PREV_FREE(bp)})
    IN  IF GET(s0, PREV_FREE(bp)) # NULL
        THEN set_pred_next(s0, bp)
        ELSE set_head_next(s0, bp)

remove_node(s, bp) == set_succ_prev(unlink_pred(s, bp), bp)

\* remove_node(bp) with prev and next already loaded from the links of bp:
\* they decide the branch and are stored there; after the store into the
\* predecessor the links are loaded again, after the one into heap_start
\* they are not.
remove_node_loaded(s, bp, prev, next) ==
    IF prev # NULL
    THEN set_succ_prev(PUT(s, NEXT_FREE(prev), next), bp)
    ELSE PUT(set_heap_start(s, next), PREV_FREE(next), prev)

(* ---------------- find_fit ---------------- *)
\* The for loop of find_fit from cur on.  The loop writes nothing, so a block
\* met a second time means the loop never ends ("hang").
RECURSIVE fit_scan(_, _, _, _)
fit_scan(s, cur, asize, seen) ==
    IF cur = HEAP_LO THEN [st |-> s, ret |-> NULL]
    ELSE IF cur \in seen THEN [st |-> Fault(s, "hang"), ret |-> NULL]
    ELSE LET s1 == Touch(s, {HDRP(cur)})
         IN  IF s1.err # "ok" THEN [st |-> s1, ret |-> NULL]
             ELSE IF ULE(asize, GET_SIZE(s1, HDRP(cur)))
             THEN [st |-> s1, ret |-> cur]
             ELSE LET s2 == Touch(s1, {NEXT_FREE(cur)})
                  IN  IF s2.err # "ok" THEN [st |-> s2, ret |-> NULL]
                      ELSE fit_scan(s2, GET(s2, NEXT_FREE(cur)), asize,
                                    seen \cup {cur})

find_fit(s, asize) == fit_scan(s, s.hs, asize, {})

(* ---------------- place ---------------- *)
\* PUT(FTRP(bp), val): the footer address comes from the header as it is.
PUT_FTRP(s, bp, val) == PUT(s, FTRP(s, bp), val)

\* The conversion of a size_t difference to int: exact on representatives.
ToInt(x) == x

\* remove_node(bp) after the tag stores of place.  s is the state place
\* began with and t the state after the stores: a build loads the links of
\* bp from t, or has loaded them from s.
place_remove(s, t, bp) ==
    LET s0 == Touch(s, {PREV_FREE(bp), NEXT_FREE(bp)})
    IN  IF t.cc # "inline" THEN remove_node(t, bp)
        ELSE IF s0.err # "ok" THEN Fault(t, s0.err)
        ELSE remove_node_loaded(t, bp, GET(s0, PREV_FREE(bp)),
                                GET(s0, NEXT_FREE(bp)))

\* The branch of place that takes the whole block.
place_whole(s, bp) ==
    LET s1 == PUT(s, HDRP(bp), PACK(GET_SIZE(s, HDRP(bp)), 1))
        s2 == PUT_FTRP(s1, bp, PACK(GET_SIZE(s1, HDRP(bp)), 1))
    IN  place_remove(s, s2, bp)

\* The free block place makes of the remainder at nbp.
place_remainder_at(s, nbp, free_space_left) ==
    LET s4 == PUT(s, HDRP(nbp), PACK(free_space_left, 0))
        s5 == PUT_FTRP(s4, nbp, PACK(free_space_left, 0))
    IN  insert_head(s5, nbp)

\* bp = NEXT_BLKP(bp) after remove_node(bp), and the remainder made there.
\* The header of bp was stored by place just before the removal: a build
\* loads it again or keeps the asize it stored.
place_remainder(s, bp, asize, free_space_left) ==
    IF s.cc # "memory"
    THEN place_remainder_at(s, PADD(bp, asize), free_space_left)
    ELSE LET s3 == Touch(s, {HDRP(bp)})
         IN  place_remainder_at(s3, NEXT_BLKP(s3, bp), free_space_left)

\* The branch of place that splits the block.
place_split(s, bp, asize, free_space_left) ==
    LET s1 == PUT(s, HDRP(bp), PACK(asize, 1))
        s2 == PUT_FTRP(s1, bp, PACK(asize, 1))
        s3 == place_remove(s, s2, bp)
    IN  place_remainder(s3, bp, asize, free_space_left)

\* place with the remainder of a split short by the tag overhead.
place_short_remainder(s, bp, asize) ==
    LET s0 == Touch(s, {HDRP(bp)})
        free_space_left == ToInt(GET_SIZE(s0, HDRP(bp)) - asize - OVERHEAD)
    IN  IF free_space_left < MINIMUMSIZE
        THEN place_whole(s0, bp)
        ELSE place_split(s0, bp, asize, free_space_left)

place(s, bp, asize) ==
    LET s0 == Touch(s, {HDRP(bp)})
        free_space_left == ToInt(GET_SIZE(s0, HDRP(bp)) - asize)
    IN  IF free_space_left < MINIMUMSIZE
        THEN place_whole(s0, bp)
        ELSE place_split(s0, bp, asize, free_space_left)

(* ---------------- coalesce ---------------- *)
\* remove_node(PREV_BLKP(bp)) and remove_node(NEXT_BLKP(bp))
remove_prev(s, bp) ==
    LET t == Touch(s, {PSUB(bp, DSIZE)})
    IN  remove_node(t, PREV_BLKP(t, bp))

remove_next(s, bp) ==
    LET t == Touch(s, {HDRP(bp)})
    IN  remove_node(t, NEXT_BLKP(t, bp))

\* The end of each merging case: the tags of the merged block at bp, its
\* insertion at the head, and the pointer returned.
merged(s, bp, size) ==
    LET s1 == PUT(s, HDRP(bp), PACK(size, 0))
        s2 == PUT_FTRP(s1, bp, PACK(size, 0))
    IN  [st |-> insert_head(s2, bp), ret |-> bp]

\* bp = PREV_BLKP(bp) after the removals, then the end of the case.  prev
\* is PREV_BLKP(bp) as it was before the removals: a build loads the footer
\* below bp again or keeps the value it had.
merged_at_prev(s, bp, prev, size) ==
    IF s.cc # "memory" THEN merged(s, prev, size)
    ELSE LET t == Touch(s, {PSUB(bp, DSIZE)})
         IN  merged(t, PREV_BLKP(t, bp), size)

\* remove_node(NEXT_BLKP(bp)) after remove_node(PREV_BLKP(bp)).  next is
\* NEXT_BLKP(bp) as it was before the first removal: a build loads the
\* header of bp again or keeps the value it had.
remove_next_after(s, bp, next) ==
    IF s.cc # "memory" THEN remove_node(s, next) ELSE remove_next(s, bp)

\* The two removals of the last case.
remove_both(s, bp) ==
    remove_next_after(remove_prev(s, bp), bp, NEXT_BLKP(s, bp))

\* Only the next block is free.
coalesce_next(s, bp, size) ==
    merged(remove_next(s, bp), bp,
           size + GET_SIZE(s, HDRP(NEXT_BLKP(s, bp))))

\* remove_node(bp), then the end of the case.
merged_removed(s, bp, size) == merged(remove_node(s, bp), bp, size)

\* Only the previous block is free: bp is moved before the removal.
coalesce_prev(s, bp, size) ==
    LET t == Touch(s, {HDRP(PREV_BLKP(s, bp))})
    IN  merged_removed(t, PREV_BLKP(t, bp),
                       size + GET_SIZE(t, HDRP(PREV_BLKP(t, bp))))

\* coalesce_both with the size of the next block left out of the sum.
coalesce_both_without_next(s, bp, size) ==
    LET t == Touch(s, {HDRP(PREV_BLKP(s, bp))})
    IN  merged_at_prev(remove_both(t, bp), bp, PREV_BLKP(t, bp),
                       size + GET_SIZE(t, HDRP(PREV_BLKP(t, bp))))

\* Both neighbours are free.
coalesce_both(s, bp, size) ==
    LET t == Touch(s, {HDRP(PREV_BLKP(s, bp))})
    IN  merged_at_prev(remove_both(t, bp), bp, PREV_BLKP(t, bp),
                       size + GET_SIZE(t, HDRP(PREV_BLKP(t, bp)))
                            + GET_SIZE(t, HDRP(NEXT_BLKP(t, bp))))

\* The four cases, the three words coalesce reads first being readable.
coalesce_cases(s, bp) ==
    LET prev_alloc == GET_ALLOC(s, PSUB(bp, DSIZE))
        next_alloc == GET_ALLOC(s, HDRP(NEXT_BLKP(s, bp)))
        size == GET_SIZE(s, HDRP(bp))
    IN  IF s.err # "ok" THEN [st |-> s, ret |-> NULL]
        ELSE IF prev_alloc = 1 /\ next_alloc = 1
        THEN [st |-> insert_head(s, bp), ret |-> bp]
        ELSE IF prev_alloc = 1 /\ next_alloc = 0
        THEN coalesce_next(s, bp, size)
        ELSE IF prev_alloc = 0 /\ next_alloc = 1
        THEN coalesce_prev(s, bp, size)
        ELSE coalesce_both(s, bp, size)

coalesce(s, bp) ==
    LET s0 == Touch(s, {PSUB(bp, DSIZE), HDRP(bp)})
    IN  coalesce_cases(Touch(s0, {HDRP(NEXT_BLKP(s0, bp))}), bp)

(* ---------------- extend_heap ---------------- *)
\* PUT(HDRP(NEXT_BLKP(bp)), val)
PUT_NEXT_HDRP(s, bp, val) == PUT(s, HDRP(NEXT_BLKP(s, bp)), val)

\* The free block and the epilogue extend_heap writes in the new memory.
extend_heap_block(s, bp, size) ==
    LET s1 == PUT(s, HDRP(bp), PACK(size, 0))
        s2 == PUT_FTRP(s1, bp, PACK(size, 0))
        s3 == PUT_NEXT_HDRP(s2, bp, PACK(0, 1))
    IN  coalesce(s3, bp)

\* words is the word count modulo 2^61 (as a representative), which fixes
\* words * WSIZE modulo 2^64 and words % 2.
extend_heap(s, words) ==
    LET size == words * WSIZE + (IF words % 2 = 1 THEN WSIZE ELSE 0)
        r == mem_sbrk(s, size)
        bp == r.ret
    IN  IF bp < 0 THEN [st |-> r.st, ret |-> NULL]
        ELSE extend_heap_block(r.st, bp, size)

max(x, y) == IF ULT(y, x) THEN x ELSE y

(* ---------------- public operations ---------------- *)
\* PUT(PADD(heap_start, off), val)
PUT_HEAP_START(s, off, val) == PUT(s, PADD(s.hs, off), val)

\* What mm_init returns for the result e of its extend_heap call.
mm_init_extended(e) ==
    IF e.ret = NULL THEN [st |-> e.st, ret |-> -1]
    ELSE [st |-> e.st, ret |-> 0]

\* mm_init after its first mem_sbrk call has set heap_start.
mm_init_heap(s) ==
    IF s.hs = NULL THEN [st |-> s, ret |-> -1]
    ELSE LET s1 == PUT_HEAP_START(s, 0, 0)
             s2 == PUT_HEAP_START(s1, WSIZE, PACK(OVERHEAD, 1))
             s3 == PUT_HEAP_START(s2, DSIZE, PACK(OVERHEAD, 1))
             s4 == PUT_HEAP_START(s3, WSIZE + DSIZE, PACK(0, 1))
         IN  mm_init_extended(extend_heap(s4, CHUNKSIZE \div WSIZE))

\* mm_init: ret is the int it returns.
mm_init(s) ==
    LET r == mem_sbrk(s, 4 * WSIZE)
    IN  mm_init_heap([r.st EXCEPT !.hs = r.ret])

\* The adjusted block size mm_malloc computes for a request of size bytes.
AdjustedSize(size) ==
    IF ULE(size, DSIZE) THEN DSIZE + OVERHEAD
    ELSE RoundDown(size + OVERHEAD + (DSIZE - 1), DSIZE)

\* mm_malloc after extend_heap returned e: no fit was found.
mm_malloc_extended(e, asize) ==
    IF e.ret = NULL THEN [st |-> e.st, ret |-> NULL]
    ELSE [st |-> place(e.st, e.ret, asize), ret |-> e.ret]

\* mm_malloc after find_fit returned f.
mm_malloc_searched(f, asize) ==
    IF f.st.err # "ok" THEN [st |-> f.st, ret |-> NULL]
    ELSE IF f.ret # NULL
    THEN [st |-> place(f.st, f.ret, asize), ret |-> f.ret]
    ELSE LET extendsize == max(asize, CHUNKSIZE)
         IN  mm_malloc_extended(extend_heap(f.st, extendsize \div WSIZE),
                                asize)

mm_malloc(s, size) ==
    IF ULE(size, 0) THEN [st |-> s, ret |-> NULL]
    ELSE LET asize == AdjustedSize(size)
         IN  mm_malloc_searched(find_fit(s, asize), asize)

\* mm_free returns nothing; ret is the block pointer coalesce returned to it.
mm_free(s, bp) ==
    LET s0 == Touch(s, {HDRP(bp)})
        size == GET_SIZE(s0, HDRP(bp))
        s1 == PUT(s0, HDRP(bp), PACK(size, 0))
        s2 == PUT_FTRP(s1, bp, PACK(size, 0))
    IN  coalesce(s2, bp)

(* ---------------- check_heap ---------------- *)
\* check_block: ret is the bool it returns.
check_block(s, bp) ==
    IF bp % DSIZE # 0 THEN [st |-> s, ret |-> FALSE]
    ELSE LET s1 == Touch(s, {HDRP(bp)})
             s2 == Touch(s1, {FTRP(s1, bp)})
         IN  [st |-> s2,
              ret |-> GET(s2, HDRP(bp)) = GET(s2, FTRP(s2, bp))]

\* The for loop of check_heap from bp on and the epilogue test after it.
\* The loop writes nothing, so a block met a second time means it never
\* ends ("hang").
RECURSIVE check_walk(_, _, _)
check_walk(s, bp, seen) ==
    LET s1 == Touch(s, {HDRP(bp)})
    IN  IF s1.err # "ok" THEN [st |-> s1, ret |-> FALSE]
        ELSE IF GET_SIZE(s1, HDRP(bp)) = 0
        THEN [st |-> s1, ret |-> GET_ALLOC(s1, HDRP(bp)) = 1]
        ELSE IF bp \in seen THEN [st |-> Fault(s1, "hang"), ret |-> FALSE]
        ELSE LET b == check_block(s1, bp)
             IN  IF b.st.err # "ok" \/ ~b.ret THEN [st |-> b.st, ret |-> FALSE]
                 ELSE check_walk(b.st, NEXT_BLKP(b.st, bp), seen \cup {bp})

\* check_heap: ret is the bool it returns.
check_heap(s) ==
    LET s1 == Touch(s, {HDRP(s.hs)})
    IN  IF s1.err # "ok" THEN [st |-> s1, ret |-> FALSE]
        ELSE IF GET_SIZE(s1, HDRP(s1.hs)) # DSIZE
                \/ GET_ALLOC(s1, HDRP(s1.hs)) = 0
        THEN [st |-> s1, ret |-> FALSE]
        ELSE check_walk(s1, s1.hs, {})

(* ---------------- views of the heap ---------------- *)
\* The stepping of the address-order loop, bp = NEXT_BLKP(bp) while
\* GET_SIZE(HDRP(bp)) > 0 as a size_t: the block pointers met from bp on, up
\* to the first header of size 0 (the epilogue); closed says whether that
\* header was reached.  It is not when a header is no readable word, or
\* when a block is met a second time: the loop writes nothing, so it would
\* never end.
RECURSIVE walk(_, _, _)
walk(s, bp, seen) ==
    IF Readable(s, HDRP(bp)) /\ GET_SIZE(s, HDRP(bp)) = 0
    THEN [blocks |-> <<>>, closed |-> TRUE]
    ELSE IF bp \in seen \/ ~Readable(s, HDRP(bp))
    THEN [blocks |-> <<>>, closed |-> FALSE]
    ELSE LET rest == walk(s, NEXT_BLKP(s, bp), seen \cup {bp})
         IN  [blocks |-> <<bp>> \o rest.blocks, closed |-> rest.closed]

\* The blocks of the heap in address order, the prologue block first: the
\* stepping above started at the block mm_init lays out first, whatever
\* heap_start points to.
HeapWalk(s) == walk(s, HEAP_LO + DSIZE, {}).blocks

IsFree(s, bp) == GET_ALLOC(s, HDRP(bp)) = 0

\* Size of the block at bp if its header is readable and says free, else 0.
FreeSizeAt(s, bp) ==
    IF Readable(s, HDRP(bp)) /\ IsFree(s, bp) THEN GET_SIZE(s, HDRP(bp)) ELSE 0

\* Total number of bytes in free blocks.
RECURSIVE SumSizes(_, _, _)
SumSizes(s, w, i) ==
    IF i > Len(w) THEN 0
    ELSE (IF IsFree(s, w[i]) THEN GET_SIZE(s, HDRP(w[i])) ELSE 0)
         + SumSizes(s, w, i + 1)

FreeBytes(s) == SumSizes(s, HeapWalk(s), 1)

\* Blocks reached by next-links from cur up to the terminator mem_heap_lo();
\* closed says whether the terminator was reached.
RECURSIVE links(_, _, _)
links(s, cur, seen) ==
    IF cur = HEAP_LO THEN [blocks |-> <<>>, closed |-> TRUE]
    ELSE IF cur \in seen \/ ~Readable(s, NEXT_FREE(cur))
    THEN [blocks |-> <<>>, closed |-> FALSE]
    ELSE LET rest == links(s, GET(s, NEXT_FREE(cur)), seen \cup {cur})
         IN  [blocks |-> <<cur>> \o rest.blocks, closed |-> rest.closed]

FreeList(s) == links(s, s.hs, {})

Range(q) == {q[i] : i \in 1..Len(q)}

(* ---------------- the state machine ---------------- *)
Cur == State(mem, brk, heap_start, err, max_heap)

Init ==
    /\ mem = <<>>
    /\ brk = 0
    /\ heap_start = NULL
    /\ err = "ok"
    /\ max_heap \in Capacities
    /\ pc = "start"
    /\ live = <<>>
    /\ pre = State(<<>>, 0, NULL, "ok", 0)
    /\ hist = <<>>
    /\ nops = 0
    /\ builds = Builds

\* The allocator's variables after a call that left the state s.
Becomes(s) ==
    /\ mem' = s.mem
    /\ brk' = s.brk
    /\ heap_start' = s.hs
    /\ err' = s.err
    /\ UNCHANGED max_heap

\* Free bytes of the current heap: none before mm_init, and then those the
\* last step left.
FreeNow == IF hist = <<>> THEN 0 ELSE hist[Len(hist)].free1

\* The call just made, with what the properties compare across calls: heap
\* size and free bytes before and after, the head after it and the size in
\* the head's header, and the allocated flag in the word two words below
\* the argument (the footer of the block before a freed block); for a
\* pointer argument also the size in its header, the size in the word two
\* words below it, and the size of the block after it if that one is free.
Record(op, arg, ret, s) ==
    /\ pre' = Cur
    /\ hist' = Append(hist, [op |-> op, arg |-> arg, ret |-> ret,
                             brk0 |-> brk, brk1 |-> s.brk,
                             free0 |-> FreeNow, free1 |-> FreeBytes(s),
                             head1 |-> s.hs,
                             headsz1 |-> GET_SIZE(s, HDRP(s.hs)),
                             prevalloc0 |-> GET_ALLOC(Cur, PSUB(arg, DSIZE)),
                             size0 |-> GET_SIZE(Cur, HDRP(arg)),
                             prevsz0 |-> GET_SIZE(Cur, PSUB(arg, DSIZE)),
                             nextfree0 |-> FreeSizeAt(Cur, NEXT_BLKP(Cur, arg))])

RemoveAt(q, i) == [j \in 1..(Len(q) - 1) |-> IF j < i THEN q[j] ELSE q[j + 1]]

\* mm_init has returned r.
InitReturns(r) ==
    /\ Becomes(r.st)
    /\ pc' = IF r.st.err # "ok" THEN "start"
             ELSE IF r.ret = 0 THEN "ready" ELSE "failed"
    /\ Record("init", 0, r.ret, r.st)

\* A call has ended as r, one of the results R[b] it has with the builds b:
\* the program is one of the builds that make it end so.
Run(R, r) == builds' = {b \in DOMAIN R : R[b] = r}
Results(R) == {R[b] : b \in DOMAIN R}

InitRuns(R) == \E r \in Results(R) : InitReturns(r) /\ Run(R, r)

MmInit ==
    /\ pc = "start"
    /\ err = "ok"
    /\ InitRuns([b \in builds |-> Left(mm_init(Built(Cur, b)))])
    /\ UNCHANGED <<live, nops>>

\* mm_malloc(size) has returned r.
MallocReturns(size, r) ==
    /\ Becomes(r.st)
    /\ live' = IF r.st.err = "ok" /\ r.ret # NULL
               THEN Append(live, [p |-> r.ret, size |-> size])
               ELSE live
    /\ Record("malloc", size, r.ret, r.st)

MallocRuns(size, R) ==
    \E r \in Results(R) : MallocReturns(size, r) /\ Run(R, r)

\* mm_malloc(size) as each build of the set runs it.
Malloc(s, size, B) == [b \in B |-> Left(mm_malloc(Built(s, b), size))]

\* p = mm_malloc(size) for some size of the set sizes.
MallocOf(sizes) ==
    /\ pc = "ready"
    /\ err = "ok"
    /\ nops < MaxOps
    /\ \E size \in sizes : MallocRuns(size, Malloc(Cur, size, builds))
    /\ nops' = nops + 1
    /\ UNCHANGED pc

\* mm_free of the i-th live allocation has returned r.
FreeReturns(i, r) ==
    /\ Becomes(r.st)
    /\ live' = RemoveAt(live, i)
    /\ Record("free", live[i].p, r.ret, r.st)

FreeRuns(i, R) == \E r \in Results(R) : FreeReturns(i, r) /\ Run(R, r)

\* mm_free(bp) as each build of the set runs it.
Free(s, bp, B) == [b \in B |-> Left(mm_free(Built(s, b), bp))]

MmFree ==
    /\ pc = "ready"
    /\ err = "ok"
    /\ nops < MaxOps
    /\ \E i \in 1..Len(live) : FreeRuns(i, Free(Cur, live[i].p, builds))
    /\ nops' = nops + 1
    /\ UNCHANGED pc

MmMalloc == MallocOf(Sizes)

\* A request size for which size + OVERHEAD + (DSIZE - 1) stays within the
\* size_t range: size is at most SIZE_MAX - 31.
NoWrap(size) == ULE(size, -1 - (OVERHEAD + (DSIZE - 1)))

MmMallocNoWrap == MallocOf({size \in Sizes : NoWrap(size)})

\* Words a caller stores: a small integer, or a pointer into the heap.
UserWords(p) == {1, p - WSIZE}

\* The store of v at address a has left the state s.
StoreDone(a, v, s) == Becomes(s) /\ Record("store", a, v, s)

\* The caller stores a word within the first size bytes of a block it was
\* given and has not freed.  Only the first two payload words are ever read
\* by the allocator (as links), so the stores are confined to them.
UserStore ==
    /\ pc = "ready"
    /\ err = "ok"
    /\ nops < MaxOps
    /\ \E i \in 1..Len(live), k \in 0..1 :
         /\ ULE((k + 1) * WSIZE, live[i].size)
         /\ \E v \in UserWords(live[i].p) :
              StoreDone(live[i].p + k * WSIZE, v,
                        PUT(Cur, live[i].p + k * WSIZE, v))
    /\ nops' = nops + 1
    /\ UNCHANGED <<pc, live, builds>>

Next == MmInit \/ MmMalloc \/ MmFree \/ UserStore

Spec == Init /\ [][Next]_vars

\* The same program when no request comes within 31 bytes of SIZE_MAX.
NextNoWrap == MmInit \/ MmMallocNoWrap \/ MmFree \/ UserStore

SpecNoWrap == Init /\ [][NextNoWrap]_vars

\* Longer runs of small requests, without caller stores.
MmMallocDeep ==
    /\ pc = "ready"
    /\ err = "ok"
    /\ nops < MaxOpsDeep
    /\ \E size \in SizesDeep : MallocRuns(size, Malloc(Cur, size, builds))
    /\ nops' = nops + 1
    /\ UNCHANGED pc

MmFreeDeep ==
    /\ pc = "ready"
    /\ err = "ok"
    /\ nops < MaxOpsDeep
    /\ \E i \in 1..Len(live) : FreeRuns(i, Free(Cur, live[i].p, builds))
    /\ nops' = nops + 1
    /\ UNCHANGED pc

NextDeep == MmInit \/ MmMallocDeep \/ MmFreeDeep

SpecDeep == Init /\ [][NextDeep]_vars

(* ---------------- properties ---------------- *)
\* mm_init returned 0 and every call since has completed.
Ready == pc = "ready" /\ err = "ok"
Last == hist[Len(hist)]
Called(op) == Len(hist) > 0 /\ Last.op = op

\* Payload bytes [p, p + blocksize(p) - 16) of the block at p.
PayloadEnd(s, p) == p + GET_SIZE(s, HDRP(p)) - OVERHEAD
PrologueEnd == HEAP_LO + DSIZE + WSIZE
EpilogueHdr(s) == HEAP_LO + s.brk - WSIZE

\* C1: the payloads of the live allocations are pairwise disjoint and lie
\* between the prologue footer and the epilogue header.
C1_LivePayloadsDisjoint ==
    Ready =>
      /\ \A i \in 1..Len(live) :
           /\ Readable(Cur, HDRP(live[i].p))
           /\ PrologueEnd <= live[i].p
           /\ live[i].p <= PayloadEnd(Cur, live[i].p)
           /\ PayloadEnd(Cur, live[i].p) <= EpilogueHdr(Cur)
      /\ \A i, j \in 1..Len(live) :
           i < j => \/ PayloadEnd(Cur, live[i].p) <= live[j].p
                    \/ PayloadEnd(Cur, live[j].p) <= live[i].p

\* C2: the next-links from heap_start reach mem_heap_lo(), list no block
\* twice, list exactly the free blocks of the address-order walk, and each
\* listed successor's previous-link is its predecessor.
C2_FreeListIsFreeBlocks ==
    Ready =>
      LET fl == FreeList(Cur)
          w == HeapWalk(Cur)
      IN  /\ fl.closed
          /\ Range(fl.blocks) = {w[i] : i \in {k \in 1..Len(w) : IsFree(Cur, w[k])}}
          /\ \A i \in 1..(Len(fl.blocks) - 1) :
               /\ Readable(Cur, PREV_FREE(fl.blocks[i + 1]))
               /\ GET(Cur, PREV_FREE(fl.blocks[i + 1])) = fl.blocks[i]

\* C3: no two blocks adjacent in address order are both free.
C3_NoAdjacentFree ==
    Ready =>
      LET w == HeapWalk(Cur)
      IN  \A i \in 1..(Len(w) - 1) : ~(IsFree(Cur, w[i]) /\ IsFree(Cur, w[i + 1]))

\* C4: every block from the prologue up to the epilogue has a footer word,
\* at header address + size - 8, equal to its header word.
C4_HeaderEqualsFooter ==
    Ready =>
      LET w == HeapWalk(Cur)
      IN  \A i \in 1..Len(w) :
            /\ Readable(Cur, FTRP(Cur, w[i]))
            /\ GET(Cur, FTRP(Cur, w[i])) = GET(Cur, HDRP(w[i]))

\* C5: the prologue header and footer hold (16, allocated) and the last heap
\* word is an epilogue header (0, allocated).
C5_SentinelsIntact ==
    Ready =>
      /\ GET(Cur, HEAP_LO + WSIZE) = PACK(OVERHEAD, 1)
      /\ GET(Cur, HEAP_LO + DSIZE) = PACK(OVERHEAD, 1)
      /\ Readable(Cur, EpilogueHdr(Cur))
      /\ GET(Cur, EpilogueHdr(Cur)) = PACK(0, 1)

\* C6: a non-NULL result of mm_malloc(size), size > 0 and size + 31 in
\* range, is a multiple of 16 from the heap start, and its block is marked
\* allocated in header and footer with a payload of at least size bytes.
C6_MallocResult ==
    (err = "ok" /\ Called("malloc") /\ Last.ret # NULL
       /\ Last.arg > 0 /\ NoWrap(Last.arg)) =>
      LET p == Last.ret
      IN  /\ (p - HEAP_LO) % DSIZE = 0
          /\ Readable(Cur, HDRP(p))
          /\ GET_ALLOC(Cur, HDRP(p)) = 1
          /\ Readable(Cur, FTRP(Cur, p))
          /\ GET_ALLOC(Cur, FTRP(Cur, p)) = 1
          /\ GET_SIZE(Cur, FTRP(Cur, p)) = GET_SIZE(Cur, HDRP(p))
          /\ GET_SIZE(Cur, HDRP(p)) - OVERHEAD >= Last.arg

\* Some free block of the heap s has at least asize bytes.
SomeFit(s, asize) ==
    LET w == HeapWalk(s)
    IN  \E i \in 1..Len(w) : IsFree(s, w[i]) /\ ULE(asize, GET_SIZE(s, HDRP(w[i])))
\* The request for max(asize, CHUNKSIZE) more bytes fails in s.
ExtensionFails(s, asize) ==
    LET n == max(asize, CHUNKSIZE) IN n < 0 \/ s.brk + n > s.cap

\* C7: mm_malloc(size) returns NULL exactly when size is 0 or no free block
\* fits and the extension fails, and then leaves heap words, heap size and
\* head as they were; in every other case it returns a non-NULL pointer.
C7_MallocNullExactly ==
    Called("malloc") =>
      LET fails == \/ Last.arg = 0
                   \/ /\ ~SomeFit(pre, AdjustedSize(Last.arg))
                      /\ ExtensionFails(pre, AdjustedSize(Last.arg))
      IN  /\ err = "ok"
          /\ (Last.ret = NULL) = fails
          /\ Last.ret = NULL =>
               mem = pre.mem /\ brk = pre.brk /\ heap_start = pre.hs

\* C8: mm_init returns -1 whenever one of its two requests fails, writes no
\* heap word after a failed request, and returns 0 only when both succeed.
C8_InitFailure ==
    Called("init") =>
      /\ err = "ok"
      /\ max_heap < 4 * WSIZE => (Last.ret = -1 /\ mem = <<>>)
      /\ (max_heap >= 4 * WSIZE /\ max_heap < 4 * WSIZE + CHUNKSIZE) =>
           (Last.ret = -1 /\ DOMAIN mem = {HEAP_LO + k * WSIZE : k \in 0..3})
      /\ Last.ret = 0 => max_heap >= 4 * WSIZE + CHUNKSIZE

\* hist[i] is a completed step: a later step exists, or nothing has faulted.
Completed(i) == i < Len(hist) \/ err = "ok"
\* Steps i and i + 1 are p = mm_malloc(n), n > 0, p not NULL, then mm_free(p).
MallocThenFree(i) ==
    /\ i + 1 <= Len(hist)
    /\ hist[i].op = "malloc" /\ hist[i].arg # 0 /\ hist[i].ret # NULL
    /\ hist[i + 1].op = "free" /\ hist[i + 1].arg = hist[i].ret
\* Step i + 2 is mm_malloc(n) again.
ThenMallocAgain(i) ==
    /\ i + 2 <= Len(hist)
    /\ hist[i + 2].op = "malloc" /\ hist[i + 2].arg = hist[i].arg
\* That mm_malloc(n) succeeds and leaves the heap size alone.
ReusesSpace(i) ==
    /\ Completed(i + 2)
    /\ hist[i + 2].ret # NULL
    /\ hist[i + 2].brk1 = hist[i + 2].brk0

\* C9: after p = mm_malloc(n) and an immediate mm_free(p) the free bytes
\* equal those before the mm_malloc, and a following mm_malloc(n) succeeds
\* without changing the heap size.
C9_RoundTripFreeBytes ==
    \A i \in 1..Len(hist) :
      MallocThenFree(i) =>
        /\ Completed(i + 1)
        /\ hist[i + 1].free1 = hist[i].free0
        /\ ThenMallocAgain(i) => ReusesSpace(i)

\* C9 with the heap growth counted: the free bytes after the mm_free equal
\* those before the mm_malloc plus the bytes by which the mm_malloc grew the
\* heap.
C9_RoundTripFreeBytesPlusGrowth ==
    \A i \in 1..Len(hist) :
      MallocThenFree(i) =>
        /\ Completed(i + 1)
        /\ hist[i + 1].free1 = hist[i].free0 + (hist[i].brk1 - hist[i].brk0)
        /\ ThenMallocAgain(i) => ReusesSpace(i)

\* C9 witness: an mm_malloc that grew the heap, the mm_free of its block,
\* and the same mm_malloc again have all completed.
C9_GrowthRoundTripDone ==
    \E i \in 1..Len(hist) :
      /\ MallocThenFree(i)
      /\ hist[i].brk1 > hist[i].brk0
      /\ ThenMallocAgain(i)
      /\ err = "ok"

\* Steps i and i + 1 are mm_free(p) and mm_malloc(m), m > 0, with the
\* adjusted size of m at most the size of the block coalesce returned.
FreeThenFittingMalloc(i) ==
    /\ i + 1 <= Len(hist)
    /\ hist[i].op = "free"
    /\ hist[i + 1].op = "malloc" /\ hist[i + 1].arg # 0
    /\ ULE(AdjustedSize(hist[i + 1].arg), hist[i].headsz1)

\* The calls of Scenario A.
ScenarioA ==
    /\ Len(hist) = 5
    /\ hist[1].op = "init"
    /\ hist[2].op = "malloc" /\ hist[2].arg = 100
    /\ hist[3].op = "malloc" /\ hist[3].arg = 200
    /\ hist[4].op = "free" /\ hist[4].arg = hist[2].ret
    /\ hist[5].op = "malloc" /\ hist[5].arg = 50

\* C10: after mm_free(p) the block coalesce returned is the head (p itself
\* when the block before p was allocated), and an immediately following
\* fitting mm_malloc(m) returns it without extending the heap; in Scenario A
\* the last call returns the first call's pointer.
C10_FreedBlockReused ==
    /\ \A i \in 1..Len(hist) :
         (hist[i].op = "free" /\ Completed(i)) =>
           /\ hist[i].head1 = hist[i].ret
           /\ hist[i].prevalloc0 = 1 => hist[i].ret = hist[i].arg
    /\ \A i \in 1..Len(hist) :
         FreeThenFittingMalloc(i) =>
           /\ Completed(i + 1)
           /\ hist[i + 1].ret = hist[i].head1
           /\ hist[i + 1].brk1 = hist[i + 1].brk0
    /\ ScenarioA =>
         /\ err = "ok"
         /\ hist[5].ret = hist[2].ret
         /\ hist[5].brk1 = hist[5].brk0

\* Steps i and i + 1 are mm_free(A) and mm_free(B), B the block directly
\* after A.
FreePair(i) ==
    /\ i + 1 <= Len(hist)
    /\ hist[i].op = "free" /\ hist[i + 1].op = "free"
    /\ hist[i + 1].arg = hist[i].arg + hist[i].size0
\* Size of the free block before the argument of step i, 0 if it was
\* allocated.
PrevFree(i) == IF hist[i].prevalloc0 = 0 THEN hist[i].prevsz0 ELSE 0

\* C11: mm_free(A) then mm_free(B), B directly after A, leaves one free
\* block that starts at A and whose size is size(A) + size(B) exactly.
C11_AdjacentFreesMerge ==
    \A i \in 1..Len(hist) :
      FreePair(i) =>
        /\ Completed(i + 1)
        /\ hist[i + 1].head1 = hist[i].arg
        /\ hist[i + 1].headsz1 = hist[i].size0 + hist[i + 1].size0

\* C11 with the free neighbours counted: the block left starts where the
\* free block before A started (at A if there was none) and its size is
\* size(A) + size(B) plus the sizes of the free block before A and of the
\* free block after B, in heaps reached through requests of at most
\* SIZE_MAX - 31 bytes.
C11_AdjacentFreesMergeWithNeighbours ==
    \A i \in 1..Len(hist) :
      FreePair(i) =>
        /\ Completed(i + 1)
        /\ hist[i + 1].head1 = hist[i].arg - PrevFree(i)
        /\ hist[i + 1].ret = hist[i + 1].head1
        /\ hist[i + 1].headsz1 = hist[i].size0 + hist[i + 1].size0
                                  + PrevFree(i) + hist[i + 1].nextfree0
        /\ hist[i + 1].free1 = hist[i].free0
                                + hist[i].size0 + hist[i + 1].size0

\* C11 witness: both frees are done, with a free block before A and a free
\* block after B.
C11_PairFreedBetweenFreeBlocks ==
    \E i \in 1..Len(hist) :
      /\ FreePair(i)
      /\ PrevFree(i) > 0
      /\ hist[i + 1].nextfree0 > 0
      /\ err = "ok"

\* The last call was an mm_malloc that grew the heap.
Extended == Called("malloc") /\ Last.brk1 > Last.brk0
\* Address of the epilogue header before the last call.
OldEpilogue == HEAP_LO + pre.brk - WSIZE
\* Size of the block that ended at the old epilogue if it was free, else 0.
TailFree ==
    IF GET_ALLOC(pre, OldEpilogue - WSIZE) = 0
    THEN GET_SIZE(pre, OldEpilogue - WSIZE) ELSE 0

\* C12: an mm_malloc that extends the heap grows it by max(adjusted size,
\* 4096) bytes, writes the epilogue header in the last word, and places the
\* request in the block that starts at the old epilogue word, or at the
\* free block that ended there, whose size is the extension plus that free
\* block.
C12_ExtensionInstallsBlock ==
    Extended =>
      LET asize == AdjustedSize(Last.arg)
          ext == max(asize, CHUNKSIZE)
          p == Last.ret
          sz == GET_SIZE(Cur, HDRP(p))
      IN  /\ err = "ok"
          /\ brk - pre.brk = ext
          /\ GET(Cur, EpilogueHdr(Cur)) = PACK(0, 1)
          /\ HDRP(p) = OldEpilogue - TailFree
          /\ GET_ALLOC(Cur, HDRP(p)) = 1
          /\ \/ sz = TailFree + ext
             \/ /\ sz = asize
                /\ FreeSizeAt(Cur, p + sz) = TailFree + ext - asize
                /\ heap_start = p + sz

\* C12 witness: the heap grew by more than 4096 bytes while a free block
\* ended at the old epilogue.
C12_GrewPastFreeTail ==
    /\ Extended
    /\ err = "ok"
    /\ TailFree > 0
    /\ AdjustedSize(Last.arg) > CHUNKSIZE

\* The last call was mm_malloc or mm_free.
AllocatorCall == Called("malloc") \/ Called("free")
\* Indices of the allocations that were live before the last call and still
\* are: all but the one an mm_malloc has just appended.
HeldAcross ==
    IF Called("malloc") /\ err = "ok" /\ Last.ret # NULL
    THEN 1..(Len(live) - 1) ELSE 1..Len(live)
\* Addresses of the words of the block at p as the heap s describes it:
\* header, payload and footer.
BlockWords(s, p) ==
    {p - WSIZE + k * WSIZE : k \in 0..((GET_SIZE(s, HDRP(p)) \div WSIZE) - 1)}
\* The word at a is the same, written or not, before and after the last call.
SameWord(a) ==
    /\ (a \in DOMAIN mem) = (a \in DOMAIN pre.mem)
    /\ a \in DOMAIN mem => mem[a] = pre.mem[a]

\* C13: an mm_malloc or mm_free call leaves the header, payload and footer
\* of every allocation that is live across it as they were.
C13_LiveBlocksUntouched ==
    AllocatorCall =>
      \A i \in HeldAcross : \A a \in BlockWords(pre, live[i].p) : SameWord(a)

\* C13 witness: a call that merged free blocks on both sides or grew the
\* heap was made while an allocation was live.
C13_CallAcrossLiveBlock ==
    /\ AllocatorCall
    /\ err = "ok"
    /\ HeldAcross # {}
    /\ \/ Extended
       \/ Called("free") /\ Last.prevalloc0 = 0 /\ Last.nextfree0 > 0

\* The sequence q without the entries equal to x, order kept.
Without(q, x) == SelectSeq(q, LAMBDA y : y # x)
\* The header of the block at bp and the word at its footer place both hold
\* size and alloc.
Tagged(s, bp, size, alloc) ==
    /\ Readable(s, HDRP(bp)) /\ GET(s, HDRP(bp)) = PACK(size, alloc)
    /\ Readable(s, bp + size - DSIZE)
    /\ GET(s, bp + size - DSIZE) = PACK(size, alloc)
\* What C14 says of r = place(bp, asize) run on the heap s, bp a free block
\* of S bytes in the free list.
PlacedAsClaimed(s, bp, asize, r) ==
    LET S == GET_SIZE(s, HDRP(bp))
        rest == Without(FreeList(s).blocks, bp)
    IN  /\ r.err = "ok"
        /\ FreeList(r).closed
        /\ IF S - asize < MINIMUMSIZE
           THEN /\ Tagged(r, bp, S, 1)
                /\ FreeList(r).blocks = rest
                /\ HeapWalk(r) = HeapWalk(s)
           ELSE /\ Tagged(r, bp, asize, 1)
                /\ Tagged(r, bp + asize, S - asize, 0)
                /\ r.hs = bp + asize
                /\ FreeList(r).blocks = <<bp + asize>> \o rest
        /\ r.brk = s.brk
        /\ \A a \in BlockWords(s, bp + S) \cup {HDRP(bp + S)} :
             /\ (a \in DOMAIN r.mem) = (a \in DOMAIN s.mem)
             /\ a \in DOMAIN s.mem => r.mem[a] = s.mem[a]
\* C14 for place run by every build on every free block of the list of the
\* current heap, with the adjusted size of each request of sizes that the
\* block can hold.
PlaceOnFreeBlocks(sizes) ==
    Ready =>
      LET fl == FreeList(Cur).blocks
      IN  \A i \in 1..Len(fl) : \A size \in sizes :
            (/\ size # 0
             /\ Readable(Cur, HDRP(fl[i])) /\ IsFree(Cur, fl[i])
             /\ ULE(AdjustedSize(size), GET_SIZE(Cur, HDRP(fl[i])))) =>
              \A b \in builds :
                PlacedAsClaimed(Cur, fl[i], AdjustedSize(size),
                                place(Built(Cur, b), fl[i], AdjustedSize(size)))

\* C14: place(bp, asize) on a free block of S >= asize bytes of the free
\* list marks the whole block allocated and unlinks it when S - asize < 32,
\* and otherwise makes an allocated block of asize bytes followed by a free
\* block of S - asize bytes that becomes the head; the block after the
\* original block keeps its words.
C14_PlaceSplitsOrTakes == PlaceOnFreeBlocks(Sizes)

\* Size of the block before bp if its footer says free, else 0.
PrevFreeSize(s, bp) ==
    IF Readable(s, PSUB(bp, DSIZE)) /\ GET_ALLOC(s, PSUB(bp, DSIZE)) = 0
    THEN GET_SIZE(s, PSUB(bp, DSIZE)) ELSE 0
\* What C15 says of r = coalesce(bp), run by mm_free(bp) on the heap s after
\* it has marked the block at bp free.
CoalescedAsClaimed(s, bp, r) ==
    LET S == GET_SIZE(s, HDRP(bp))
        P == PrevFreeSize(s, bp)
        N == FreeSizeAt(s, bp + S)
        fl == FreeList(s).blocks
        kept == IF N > 0 THEN Without(fl, bp + S) ELSE fl
        rest == IF P > 0 THEN Without(kept, bp - P) ELSE kept
    IN  /\ r.st.err = "ok"
        /\ r.ret = bp - P
        /\ Tagged(r.st, bp - P, P + S + N, 0)
        /\ r.st.hs = bp - P
        /\ FreeList(r.st).closed
        /\ FreeList(r.st).blocks = <<bp - P>> \o rest
        /\ Len(rest) = Len(fl) - (IF P > 0 THEN 1 ELSE 0)
                                - (IF N > 0 THEN 1 ELSE 0)

\* C15: coalesce on a block just marked free and not in the free list
\* unlinks exactly its free neighbours, tags one block with the sum of the
\* sizes, makes it the head, returns the previous block's address if that
\* one was free and bp otherwise, and keeps the other members of the list in
\* their order.  Checked for mm_free of every live allocation of every heap.
C15_CoalesceFourCases ==
    Ready =>
      \A i \in 1..Len(live) :
        (/\ Readable(Cur, HDRP(live[i].p))
         /\ GET_ALLOC(Cur, HDRP(live[i].p)) = 1
         /\ live[i].p \notin Range(FreeList(Cur).blocks)) =>
          \A b \in builds :
            CoalescedAsClaimed(Cur, live[i].p,
                               mm_free(Built(Cur, b), live[i].p))

\* Positions in the free list of s of the blocks of at least asize bytes.
Fits(s, asize) ==
    LET fl == FreeList(s).blocks
    IN  {i \in 1..Len(fl) : ULE(asize, GET_SIZE(s, HDRP(fl[i])))}
\* The least member of a non-empty set of numbers.
Least(S) == CHOOSE i \in S : \A j \in S : i <= j
\* What C16 says of r = find_fit(asize) run on the heap s.
FoundAsClaimed(s, asize, r) ==
    /\ r.st = s
    /\ IF Fits(s, asize) = {} THEN r.ret = NULL
       ELSE r.ret = FreeList(s).blocks[Least(Fits(s, asize))]

\* C16: find_fit(asize) returns the first block of the free list, from the
\* head on, of at least asize bytes, and NULL when there is none; and an
\* mm_malloc that grew the heap had no such block in the list.  Checked on
\* every heap for the adjusted size of every request size.
C16_FindFitFirstFit ==
    /\ Ready =>
         \A size \in Sizes \ {0} :
           FoundAsClaimed(Cur, AdjustedSize(size),
                          find_fit(Cur, AdjustedSize(size)))
    /\ Extended => Fits(pre, AdjustedSize(Last.arg)) = {}

\* What C17 says of r = insert_head(b) run on the heap s, term being the
\* value a head's previous-link holds.
InsertedAsClaimed(s, b, r, term) ==
    /\ r.err = "ok"
    /\ r.hs = b
    /\ GET(r, PREV_FREE(b)) = term
    /\ GET(r, NEXT_FREE(b)) = s.hs
    /\ GET(r, PREV_FREE(s.hs)) = b
\* What C17 says of r = remove_node(b) run on the heap s.
RemovedAsClaimed(s, b, r, term) ==
    LET prev == GET(s, PREV_FREE(b))
        next == GET(s, NEXT_FREE(b))
    IN  /\ r.err = "ok"
        /\ IF prev = term THEN r.hs = next
           ELSE r.hs = s.hs /\ GET(r, NEXT_FREE(prev)) = next
        /\ GET(r, PREV_FREE(next)) = prev
\* The link protocol of C17 on the current heap: insert_head run on every
\* live allocation, remove_node run on every member of the free list, and
\* the head being the one member whose previous-link is term.
LinkProtocol(term) ==
    Ready =>
      LET fl == FreeList(Cur).blocks
      IN  /\ \A i \in 1..Len(live) :
               live[i].p \notin Range(fl) =>
                 InsertedAsClaimed(Cur, live[i].p,
                                   insert_head(Cur, live[i].p), term)
          /\ \A i \in 1..Len(fl) :
               /\ RemovedAsClaimed(Cur, fl[i], remove_node(Cur, fl[i]), term)
               /\ (GET(Cur, PREV_FREE(fl[i])) = term) = (fl[i] = heap_start)

\* C17: the link protocol, the previous-link of the head holding the value
\* that ends the next-link traversal, mem_heap_lo().
C17_LinkProtocolOneTerminator == LinkProtocol(HEAP_LO)

\* C17 with the terminator the code writes: the previous-link of the head
\* holds NULL, while the next-link of the last member holds mem_heap_lo().
C17_LinkProtocolNullPrev ==
    /\ LinkProtocol(NULL)
    /\ Ready =>
         LET fl == FreeList(Cur)
         IN  /\ fl.closed
             /\ \A i \in 1..Len(fl.blocks) :
                  GET(Cur, NEXT_FREE(fl.blocks[i])) # NULL

\* C17 witness: the free list has a member with a predecessor and a
\* successor, and an allocation is live.
C17_ListOfThree ==
    /\ Ready
    /\ Len(FreeList(Cur).blocks) >= 3
    /\ Len(live) > 0

\* Sum of the sizes in the headers of the blocks w[i], w[i + 1], ...
RECURSIVE SumAll(_, _, _)
SumAll(s, w, i) ==
    IF i > Len(w) THEN 0 ELSE GET_SIZE(s, HDRP(w[i])) + SumAll(s, w, i + 1)
\* The blocks met from the first block after the prologue on.
BlocksAfterPrologue(s) == walk(s, HEAP_LO + 2 * DSIZE, {}).blocks

\* C18: from heap offset 32 on, adding the size in each header visits only
\* blocks of a multiple of 16 and at least 32 bytes and arrives at the
\* epilogue header in the last word of the heap, so the sizes plus 32 make
\* the heap size; and no call has made the heap smaller.
C18_BlocksTileHeap ==
    /\ Ready =>
         LET w == BlocksAfterPrologue(Cur)
         IN  /\ \A i \in 1..Len(w) :
                  /\ GET_SIZE(Cur, HDRP(w[i])) % DSIZE = 0
                  /\ GET_SIZE(Cur, HDRP(w[i])) >= MINIMUMSIZE
             /\ SumAll(Cur, w, 1) + 2 * DSIZE = brk
             /\ Readable(Cur, EpilogueHdr(Cur))
             /\ GET(Cur, EpilogueHdr(Cur)) = PACK(0, 1)
    /\ \A i \in 1..Len(hist) : hist[i].brk1 >= hist[i].brk0

\* C19: check_heap returns true in every state reached through mm_init,
\* mm_malloc and mm_free.
C19_CheckHeapAccepts ==
    Ready =>
      LET r == check_heap(Cur)
      IN  r.st.err = "ok" /\ r.ret

\* asize is a multiple of 16, at least 32 and at least size + 16, as
\* numbers (no wrap): size <= asize and asize - size >= 16, unsigned.
SoundAdjustedSize(size, asize) ==
    /\ asize % DSIZE = 0
    /\ ULE(MINIMUMSIZE, asize)
    /\ ULE(size, asize)
    /\ ULE(OVERHEAD, asize - size)

\* C20: for every request of size > 0 the adjusted size mm_malloc computes
\* is a multiple of 16, at least 32 and at least size + 16; a block it
\* returns has a payload of at least size bytes; and the heap grows by
\* max(adjusted size, 4096) bytes when it grows.
C20_AdjustedSizeSound ==
    (Called("malloc") /\ Last.arg # 0) =>
      /\ SoundAdjustedSize(Last.arg, AdjustedSize(Last.arg))
      /\ Last.ret # NULL =>
           /\ err = "ok"
           /\ ULE(Last.arg, GET_SIZE(Cur, HDRP(Last.ret)) - OVERHEAD)
      /\ Extended => brk - pre.brk = max(AdjustedSize(Last.arg), CHUNKSIZE)
====
